---- MODULE Spec2Model ----
(***************************************************************************)
(* Model of the hospital administration application (src/app.py): the      *)
(* session gate (login, logout, login_required, admin_required), the user   *)
(* service, the patient, appointment and medical-record services, and the  *)
(* four tables they work on.  One action per Flask route; a request is      *)
(* handled atomically (one SQL statement, or a statement and a short read). *)
(***************************************************************************)
EXTENDS Integers, FiniteSets, Sequences, TLC

(***************************************************************************)
(* Bounds and sample input values.                                          *)
(***************************************************************************)
\* Number of rows the requests of one run may insert, all tables together
\* (the seeded admin account not counted).
MaxRows == 2

Usernames == {"admin", "bob"}
Passwords == {"admin123", "pw"}
Salts == {1}
\* the roles the forms submit: admin and one that is not (the gate only asks
\* whether the role is admin)
Roles == {"admin", "doctor"}
FullNames == {"Staff Member"}
Emails == {"staff@hospital.com"}
Names == {"Ann"}
Phones == {"555"}
Doctors == {"Dr. Smith"}
Dates == {"2024-01-01", "2024-01-02"}
AppointmentDates == {"2024-03-01"}
Times == {"09:00"}
Searches == {"", "an"}
Methods == {"GET", "POST"}


VARIABLES users, patients, appointments, medical_records, seq, session, resp

stores == <<users, patients, appointments, medical_records, seq>>
vars == <<users, patients, appointments, medical_records, seq, session, resp>>

(***************************************************************************)
(* werkzeug.security: a salted one-way hash.  The digest is computed from   *)
(* the salt and the password; checking recomputes it with the stored salt.  *)
(***************************************************************************)
PwCode(p) == CASE p = "" -> 0
               [] p = "admin123" -> 1
               [] p = "pw" -> 2
               [] OTHER -> 3

Digest(salt, password) == (PwCode(password) * 31 + salt * 17) % 101

generate_password_hash(salt, password) ==
    [salt |-> salt, digest |-> Digest(salt, password)]

\* a check that looks at the salt only
check_salt_only(pwhash, password) == pwhash.salt \in Salts

check_password_hash(pwhash, password) ==
    Digest(pwhash.salt, password) = pwhash.digest

(***************************************************************************)
(* The tables.  AUTOINCREMENT: seq[t] is the largest id table t ever gave   *)
(* out (sqlite_sequence); a new row gets seq[t] + 1, so ids are not reused. *)
(***************************************************************************)
Tables == {"users", "patients", "appointments", "medical_records"}

RowsInserted == seq["users"] + seq["patients"] + seq["appointments"]
                    + seq["medical_records"]

\* room for one more row within the bound (the seeded admin is the first row)
Room == RowsInserted < MaxRows + 1

\* the rows of table t
Rows(t) == CASE t = "users" -> users
             [] t = "patients" -> patients
             [] t = "appointments" -> appointments
             [] t = "medical_records" -> medical_records

\* INTEGER PRIMARY KEY without AUTOINCREMENT: one more than the largest id
\* now in the table
NextIdAfterLargest(t) ==
    IF Rows(t) = {} THEN 1
    ELSE 1 + CHOOSE m \in {r.id : r \in Rows(t)} : \A r \in Rows(t) : r.id <= m

NextId(t) == seq[t] + 1

\* the ids a URL may carry for table t: every id the table has given out,
\* and the next one, which no row has yet
Ids(t) == 1..NextId(t)

Bump(t) == [seq EXCEPT ![t] = seq[t] + 1]

UserById(id) == {u \in users : u.id = id}
UserByName(username) == {u \in users : u.username = username}
PatientById(id) == {p \in patients : p.id = id}
RecordById(id) == {r \in medical_records : r.id = id}

\* the session of Flask: a mapping, empty when nobody is logged in
NoSession == [k \in {} |-> ""]
LoggedIn == "user_id" \in DOMAIN session

\* session.get('user_role')
SessionRole == IF "user_role" \in DOMAIN session THEN session["user_role"] ELSE "None"

(***************************************************************************)
(* Responses: redirect(url_for(target)) or render_template(target), with    *)
(* the flashed notice and the payload handed to the template; op and id     *)
(* are the route and the <int:id> of the request that is answered.          *)
(***************************************************************************)
NoData == <<>>

\* no response is on its way to the browser: the next request can be taken
Idle == [op |-> "", id |-> 0, kind |-> "", target |-> "", flash |-> "", data |-> NoData]

\* requests are handled one at a time: none is taken before the response to
\* the one before has left
Ready == resp = Idle

\* the id of a request whose URL carries none
NoId == 0

Redirect(op, id, target, flash) ==
    [op |-> op, id |-> id, kind |-> "redirect", target |-> target, flash |-> flash,
     data |-> NoData]

Render(op, id, template, flash, data) ==
    [op |-> op, id |-> id, kind |-> "render", target |-> template, flash |-> flash,
     data |-> data]

(***************************************************************************)
(* init_db: creates the tables and seeds the admin account when the users   *)
(* table is empty.                                                          *)
(***************************************************************************)
AdminRow(id, salt) ==
    [id |-> id, username |-> "admin",
     password_hash |-> generate_password_hash(salt, "admin123"),
     role |-> "admin", full_name |-> "System Administrator",
     email |-> "admin@hospital.com"]

Init ==
    /\ \E salt \in Salts : users = {AdminRow(1, salt)}
    /\ patients = {}
    /\ appointments = {}
    /\ medical_records = {}
    /\ seq = [t \in Tables |-> IF t = "users" THEN 1 ELSE 0]
    /\ session = NoSession
    /\ resp = Idle

\* an init_db that seeds the admin account without counting the users first
init_db_reseeding ==
    /\ Ready
    /\ Room
    /\ \E salt \in Salts : users' = users \cup {AdminRow(NextId("users"), salt)}
    /\ seq' = Bump("users")
    /\ resp' = Idle
    /\ UNCHANGED <<patients, appointments, medical_records, session>>

\* the application is started again on the existing database
init_db ==
    /\ Ready
    /\ IF Cardinality(users) = 0
       THEN /\ Room
            /\ \E salt \in Salts : users' = {AdminRow(NextId("users"), salt)}
            /\ seq' = Bump("users")
       ELSE UNCHANGED <<users, seq>>
    /\ resp' = Idle
    /\ UNCHANGED <<patients, appointments, medical_records, session>>

(***************************************************************************)
(* Session gate.                                                            *)
(***************************************************************************)
\* a login_required that lets every request through
login_required_open(op, id, F) == Ready /\ F

login_required(op, id, F) ==
    /\ Ready
    /\ IF ~LoggedIn
       THEN /\ resp' = Redirect(op, id, "login", "Please log in to access this page.")
            /\ UNCHANGED <<stores, session>>
       ELSE F

\* an admin_required that checks the login but not the role
admin_required_any_role(op, id, F) ==
    /\ Ready
    /\ IF ~LoggedIn
       THEN /\ resp' = Redirect(op, id, "login", "Please log in to access this page.")
            /\ UNCHANGED <<stores, session>>
       ELSE F

\* an admin_required that looks the session's user up in the users table and
\* goes by the row's role
admin_required_revalidating(op, id, F) ==
    /\ Ready
    /\ IF ~LoggedIn \/ UserById(session["user_id"]) = {}
       THEN /\ resp' = Redirect(op, id, "login", "Please log in to access this page.")
            /\ UNCHANGED <<stores, session>>
       ELSE IF \E u \in UserById(session["user_id"]) : u.role # "admin"
       THEN /\ resp' = Redirect(op, id, "dashboard", "Admin access required.")
            /\ UNCHANGED <<stores, session>>
       ELSE F

admin_required(op, id, F) ==
    /\ Ready
    /\ IF ~LoggedIn
       THEN /\ resp' = Redirect(op, id, "login", "Please log in to access this page.")
            /\ UNCHANGED <<stores, session>>
       ELSE IF SessionRole # "admin"
       THEN /\ resp' = Redirect(op, id, "dashboard", "Admin access required.")
            /\ UNCHANGED <<stores, session>>
       ELSE F

\* the session payload login stores for a user row
SessionOf(user) ==
    [user_id |-> user.id, username |-> user.username,
     user_role |-> user.role, full_name |-> user.full_name]

\* the user row login accepts for the submitted credentials, if any
Authenticated(store, username, password) ==
    {u \in store : u.username = username /\ check_password_hash(u.password_hash, password)}

login(method, username, password) ==
    /\ Ready
    /\ IF method = "POST" /\ Authenticated(users, username, password) # {}
       THEN /\ \E user \in Authenticated(users, username, password) :
                   session' = SessionOf(user)
            /\ resp' = Redirect("login", NoId, "dashboard", "Login successful!")
       ELSE /\ resp' = Render("login", NoId, "login.html",
                              IF method = "POST" THEN "Invalid username or password." ELSE "",
                              NoData)
            /\ UNCHANGED session
    /\ UNCHANGED stores

\* a logout that forgets the role but keeps the rest of the session
logout_keeping_user ==
    /\ Ready
    /\ session' = [k \in DOMAIN session \ {"user_role"} |-> session[k]]
    /\ resp' = Redirect("logout", NoId, "login", "You have been logged out.")
    /\ UNCHANGED stores

logout ==
    /\ Ready
    /\ session' = NoSession
    /\ resp' = Redirect("logout", NoId, "login", "You have been logged out.")
    /\ UNCHANGED stores

index ==
    /\ Ready
    /\ resp' = IF LoggedIn THEN Redirect("index", NoId, "dashboard", "")
                           ELSE Render("index", NoId, "index.html", "", NoData)
    /\ UNCHANGED <<stores, session>>

(***************************************************************************)
(* User service (admin only).                                               *)
(***************************************************************************)
\* request.form.get('password') of edit_user: absent, blank, or a password
NoPassword == <<>>
PasswordFields == {NoPassword, <<"">>} \cup {<<p>> : p \in Passwords}

\* the requests a route is sent: a GET, or a POST carrying the form
Get == [method |-> "GET"]
AddUserRequests ==
    {Get} \cup [method : {"POST"}, username : Usernames, password : Passwords,
                role : Roles, full_name : FullNames, email : Emails]
EditUserRequests ==
    {Get} \cup [method : {"POST"}, username : Usernames, password : PasswordFields,
                role : Roles, full_name : FullNames, email : Emails]

\* Python truth value of the submitted password field
Truthy(field) == field # NoPassword /\ field[1] # ""

\* what the users template is given: every column but the password hash
UserView(u) == [id |-> u.id, username |-> u.username, role |-> u.role,
                full_name |-> u.full_name, email |-> u.email]

\* a users table without the UNIQUE constraint
UsernameNeverTaken(store, username, id) == FALSE

\* a UNIQUE constraint that is checked on INSERT only (id 0), never on UPDATE
UsernameTakenOnInsert(store, username, id) ==
    id = 0 /\ \E u \in store : u.username = username

\* UNIQUE(username): another row than `id` already holds the username
UsernameTaken(store, username, id) ==
    \E u \in store : u.username = username /\ u.id # id

view_users ==
    admin_required("view_users", NoId,
        /\ resp' = Render("view_users", NoId, "users.html", "",
                          {UserView(u) : u \in users})
        /\ UNCHANGED <<stores, session>>)

\* INSERT INTO users (username, password_hash, role, full_name, email)
InsertUser(store, id, username, password_hash, role, full_name, email) ==
    store \cup {[id |-> id, username |-> username, password_hash |-> password_hash,
                 role |-> role, full_name |-> full_name, email |-> email]}

add_user(req) ==
    admin_required("add_user", NoId,
        IF req.method = "POST"
        THEN IF UsernameTaken(users, req.username, 0)
             THEN \* sqlite3.IntegrityError
                  /\ resp' = Render("add_user", NoId, "add_user.html",
                                    "Username already exists!", NoData)
                  /\ UNCHANGED <<stores, session>>
             ELSE /\ Room
                  /\ \E salt \in Salts :
                        users' = InsertUser(users, NextId("users"), req.username,
                                            generate_password_hash(salt, req.password),
                                            req.role, req.full_name, req.email)
                  /\ seq' = Bump("users")
                  /\ resp' = Redirect("add_user", NoId, "view_users",
                                      "User created successfully!")
                  /\ UNCHANGED <<patients, appointments, medical_records, session>>
        ELSE /\ resp' = Render("add_user", NoId, "add_user.html", "", NoData)
             /\ UNCHANGED <<stores, session>>)

\* UPDATE users SET username=?, password_hash=?, role=?, full_name=?, email=? WHERE id=?
UpdateUserWithPassword(store, id, req, password_hash) ==
    {IF u.id # id THEN u
     ELSE [u EXCEPT !.username = req.username, !.password_hash = password_hash,
                    !.role = req.role, !.full_name = req.full_name,
                    !.email = req.email] : u \in store}

\* an update that stores the hash of the blank password it was sent
UpdateUserBlankPassword(store, id, req) ==
    {IF u.id # id THEN u
     ELSE [u EXCEPT !.username = req.username,
                    !.password_hash = generate_password_hash(u.password_hash.salt, ""),
                    !.role = req.role, !.full_name = req.full_name,
                    !.email = req.email] : u \in store}

\* UPDATE users SET username=?, role=?, full_name=?, email=? WHERE id=?
UpdateUserKeepPassword(store, id, req) ==
    {IF u.id # id THEN u
     ELSE [u EXCEPT !.username = req.username, !.role = req.role,
                    !.full_name = req.full_name, !.email = req.email] : u \in store}

\* the tail of edit_user: read the row and show the form, or report it missing
EditUserForm(id, flash) ==
    IF UserById(id) = {}
    THEN resp' = Redirect("edit_user", id, "view_users", "User not found!")
    ELSE \E u \in UserById(id) :
            resp' = Render("edit_user", id, "edit_user.html", flash, UserView(u))

edit_user(id, req) ==
    admin_required("edit_user", id,
        IF req.method = "POST"
        THEN IF UserById(id) # {} /\ UsernameTaken(users, req.username, id)
             THEN \* IntegrityError, caught by `except Exception`; falls through
                  /\ EditUserForm(id, "Error updating user")
                  /\ UNCHANGED <<stores, session>>
             ELSE /\ IF Truthy(req.password)
                     THEN \E salt \in Salts :
                            users' = UpdateUserWithPassword(users, id, req,
                                        generate_password_hash(salt, req.password[1]))
                     ELSE users' = UpdateUserKeepPassword(users, id, req)
                  /\ resp' = Redirect("edit_user", id, "view_users",
                                      "User updated successfully!")
                  /\ UNCHANGED <<patients, appointments, medical_records, seq, session>>
        ELSE /\ EditUserForm(id, "")
             /\ UNCHANGED <<stores, session>>)

\* a delete_user that also drops the session of the administrator
delete_user_clearing(id) ==
    admin_required("delete_user", id,
        /\ users' = {u \in users : u.id # id}
        /\ session' = NoSession
        /\ resp' = Redirect("delete_user", id, "view_users", "User deleted successfully!")
        /\ UNCHANGED <<patients, appointments, medical_records, seq>>)

delete_user(id) ==
    admin_required("delete_user", id,
        /\ users' = {u \in users : u.id # id}
        /\ resp' = Redirect("delete_user", id, "view_users", "User deleted successfully!")
        /\ UNCHANGED <<patients, appointments, medical_records, seq, session>>)

(***************************************************************************)
(* Text columns: SQL LIKE '%term%' (case-insensitive substring) and the     *)
(* ORDER BY comparisons, on the sample strings.                             *)
(***************************************************************************)
\* the characters of a sample string, lower-cased as LIKE compares them
Chars(s) == CASE s = "" -> <<>>
              [] s = "an" -> <<"a", "n">>
              [] s = "Ann" -> <<"a", "n", "n">>
              [] s = "555" -> <<"5", "5", "5">>
              [] s = "Jane Doe" -> <<"j", "a", "n", "e", " ", "d", "o", "e">>
              [] s = "Dr. Smith" -> <<"d", "r", ".", " ", "s", "m", "i", "t", "h">>
              [] s = "flu" -> <<"f", "l", "u">>
              [] OTHER -> <<"?">>

\* text LIKE '%' || term || '%'
Like(text, term) ==
    LET t == Chars(text)
        w == Chars(term)
    IN \E k \in 0..Len(t) :
          /\ k + Len(w) <= Len(t)
          /\ \A n \in 1..Len(w) : t[k + n] = w[n]

\* position of a sample string in the text order of the columns sorted on
Rank(s) == CASE s = "09:00" -> 1
             [] s = "2024-01-01" -> 2
             [] s = "2024-01-02" -> 3
             [] s = "2024-03-01" -> 4
             [] s = "Ann" -> 5
             [] OTHER -> 0

\* the orders in which a query may return the rows S sorted by ascending
\* key[row]: rows with equal keys come in any order
Ordered(S, key) ==
    {sq \in [1..Cardinality(S) -> S] :
        /\ \A a, b \in 1..Cardinality(S) : a # b => sq[a] # sq[b]
        /\ \A a, b \in 1..Cardinality(S) : a < b => key[sq[a]] <= key[sq[b]]}

\* ORDER BY visit_date DESC
ByVisitDateDesc(S) == [r \in S |-> 0 - Rank(r.visit_date)]
\* ORDER BY name
ByNameAsc(S) == [r \in S |-> Rank(r.name)]
\* ORDER BY date DESC, time DESC
ByDateTimeDesc(S) == [r \in S |-> 0 - (Rank(r.date) * 10 + Rank(r.time))]

\* LIMIT n
Limit(sq, n) == SubSeq(sq, 1, IF Len(sq) < n THEN Len(sq) ELSE n)

(***************************************************************************)
(* Dashboard.                                                               *)
(***************************************************************************)
dashboard ==
    login_required("dashboard", NoId,
        /\ \E recent \in Ordered(appointments, ByDateTimeDesc(appointments)) :
              resp' = Render("dashboard", NoId, "dashboard.html", "",
                             [total_patients |-> Cardinality(patients),
                              total_appointments |-> Cardinality(appointments),
                              total_doctors |-> 3,
                              recent_appointments |-> Limit(recent, 5)])
        /\ UNCHANGED <<stores, session>>)

(***************************************************************************)
(* Medical record service.                                                  *)
(***************************************************************************)
\* patient ids a record form may name, whether such a patient exists or not
PatientRefs == 1..2

RecordForms == [method : {"POST"}, patient_id : PatientRefs, doctor_name : Doctors,
                diagnosis : {"flu"}, treatment : {"rest"}, prescription : {"none"},
                notes : {"-"}, visit_date : Dates]
RecordRequests == {Get} \cup RecordForms

RecordRow(id, req) ==
    [id |-> id, patient_id |-> req.patient_id, doctor_name |-> req.doctor_name,
     diagnosis |-> req.diagnosis, treatment |-> req.treatment,
     prescription |-> req.prescription, notes |-> req.notes,
     visit_date |-> req.visit_date]

\* SELECT mr.*, p.name as patient_name FROM medical_records mr
\*   JOIN patients p ON mr.patient_id = p.id
JoinPatients(records) ==
    {[id |-> r.id, patient_id |-> r.patient_id, doctor_name |-> r.doctor_name,
      diagnosis |-> r.diagnosis, treatment |-> r.treatment,
      prescription |-> r.prescription, notes |-> r.notes,
      visit_date |-> r.visit_date, patient_name |-> p.name] :
        <<r, p>> \in {pair \in records \X patients : pair[1].patient_id = pair[2].id}}

\* SELECT id, name FROM patients ORDER BY name
PatientChoices ==
    LET found == {[id |-> p.id, name |-> p.name] : p \in patients}
    IN Ordered(found, ByNameAsc(found))

view_medical_records(search) ==
    login_required("view_medical_records", NoId,
        /\ LET found == IF search # ""
                        THEN {r \in JoinPatients(medical_records) :
                                \/ Like(r.patient_name, search)
                                \/ Like(r.doctor_name, search)
                                \/ Like(r.diagnosis, search)}
                        ELSE JoinPatients(medical_records)
           IN \E records \in Ordered(found, ByVisitDateDesc(found)) :
                 resp' = Render("view_medical_records", NoId, "medical_records.html", "",
                                [records |-> records, search |-> search])
        /\ UNCHANGED <<stores, session>>)

add_medical_record(req) ==
    login_required("add_medical_record", NoId,
        IF req.method = "POST"
        THEN /\ Room
             /\ medical_records' = medical_records \cup
                    {RecordRow(NextId("medical_records"), req)}
             /\ seq' = Bump("medical_records")
             /\ resp' = Redirect("add_medical_record", NoId, "view_medical_records",
                                 "Medical record added successfully!")
             /\ UNCHANGED <<users, patients, appointments, session>>
        ELSE /\ \E choices \in PatientChoices :
                   resp' = Render("add_medical_record", NoId, "add_medical_record.html", "",
                                  [patients |-> choices])
             /\ UNCHANGED <<stores, session>>)

view_medical_record(id) ==
    login_required("view_medical_record", id,
        /\ LET found == {r \in JoinPatients(medical_records) : r.id = id}
           IN IF found = {}
              THEN resp' = Redirect("view_medical_record", id, "view_medical_records",
                                    "Medical record not found!")
              ELSE \E record \in found :
                      resp' = Render("view_medical_record", id, "view_medical_record.html",
                                     "", [record |-> record])
        /\ UNCHANGED <<stores, session>>)

edit_medical_record(id, req) ==
    login_required("edit_medical_record", id,
        IF req.method = "POST"
        THEN /\ medical_records' =
                    {IF r.id = id THEN RecordRow(id, req) ELSE r : r \in medical_records}
             /\ resp' = Redirect("edit_medical_record", id, "view_medical_records",
                                 "Medical record updated successfully!")
             /\ UNCHANGED <<users, patients, appointments, seq, session>>
        ELSE /\ LET found == {r \in medical_records : r.id = id}
                IN IF found = {}
                   THEN resp' = Redirect("edit_medical_record", id, "view_medical_records",
                                         "Medical record not found!")
                   ELSE \E record \in found, choices \in PatientChoices :
                           resp' = Render("edit_medical_record", id, "edit_medical_record.html",
                                          "", [record |-> record, patients |-> choices])
             /\ UNCHANGED <<stores, session>>)

delete_medical_record(id) ==
    login_required("delete_medical_record", id,
        /\ medical_records' = {r \in medical_records : r.id # id}
        /\ resp' = Redirect("delete_medical_record", id, "view_medical_records",
                            "Medical record deleted successfully!")
        /\ UNCHANGED <<users, patients, appointments, seq, session>>)

\* a patient_history that shows the records whenever there are any
patient_history_by_records(patient_id) ==
    login_required("patient_history", patient_id,
        /\ LET found == {r \in medical_records : r.patient_id = patient_id}
           IN IF PatientById(patient_id) = {} /\ found = {}
              THEN resp' = Redirect("patient_history", patient_id, "view_patients",
                                    "Patient not found!")
              ELSE \E records \in Ordered(found, ByVisitDateDesc(found)) :
                      resp' = Render("patient_history", patient_id, "patient_history.html", "",
                                     [patient |-> PatientById(patient_id), records |-> records])
        /\ UNCHANGED <<stores, session>>)

patient_history(patient_id) ==
    login_required("patient_history", patient_id,
        /\ IF PatientById(patient_id) = {}
           THEN resp' = Redirect("patient_history", patient_id, "view_patients",
                                 "Patient not found!")
           ELSE LET found == {r \in medical_records : r.patient_id = patient_id}
                IN \E patient \in PatientById(patient_id),
                      records \in Ordered(found, ByVisitDateDesc(found)) :
                      resp' = Render("patient_history", patient_id, "patient_history.html", "",
                                     [patient |-> patient, records |-> records])
        /\ UNCHANGED <<stores, session>>)

(***************************************************************************)
(* Patient service.                                                         *)
(***************************************************************************)
PatientForms == [method : {"POST"}, name : Names, age : {30}, gender : {"Female"},
                 address : {"1 Main St"}, phone : Phones]
PatientRequests == {Get} \cup PatientForms

PatientRow(id, req) ==
    [id |-> id, name |-> req.name, age |-> req.age, gender |-> req.gender,
     address |-> req.address, phone |-> req.phone]

register_patient(req) ==
    login_required("register_patient", NoId,
        /\ Room
        /\ patients' = patients \cup {PatientRow(NextId("patients"), req)}
        /\ seq' = Bump("patients")
        /\ resp' = Redirect("register_patient", NoId, "view_patients",
                            "Patient registered successfully!")
        /\ UNCHANGED <<users, appointments, medical_records, session>>)

view_patients(search) ==
    login_required("view_patients", NoId,
        /\ LET found == IF search # ""
                        THEN {p \in patients : Like(p.name, search) \/ Like(p.phone, search)}
                        ELSE patients
           IN \E rows \in Ordered(found, ByNameAsc(found)) :
                 resp' = Render("view_patients", NoId, "view_patients.html", "",
                                [patients |-> rows, search |-> search])
        /\ UNCHANGED <<stores, session>>)

update_patient(id, req) ==
    login_required("update_patient", id,
        IF req.method = "POST"
        THEN /\ patients' = {IF p.id = id THEN PatientRow(id, req) ELSE p : p \in patients}
             /\ resp' = Redirect("update_patient", id, "view_patients",
                                 "Patient updated successfully!")
             /\ UNCHANGED <<users, appointments, medical_records, seq, session>>
        ELSE \* fetchone() gives None for a missing id; the form is rendered anyway
             /\ resp' = Render("update_patient", id, "update_patient.html", "",
                               [patient |-> PatientById(id)])
             /\ UNCHANGED <<stores, session>>)

\* a delete_patient that also deletes the patient's medical records
delete_patient_cascade(id) ==
    login_required("delete_patient", id,
        /\ patients' = {p \in patients : p.id # id}
        /\ medical_records' = {r \in medical_records : r.patient_id # id}
        /\ resp' = Redirect("delete_patient", id, "view_patients",
                            "Patient deleted successfully!")
        /\ UNCHANGED <<users, appointments, seq, session>>)

delete_patient(id) ==
    login_required("delete_patient", id,
        /\ patients' = {p \in patients : p.id # id}
        /\ resp' = Redirect("delete_patient", id, "view_patients",
                            "Patient deleted successfully!")
        /\ UNCHANGED <<users, appointments, medical_records, seq, session>>)

(***************************************************************************)
(* Appointment service.                                                     *)
(***************************************************************************)
AppointmentForms == [method : {"POST"}, patient_name : {"Jane Doe"},
                     doctor_name : Doctors, date : AppointmentDates, time : Times]
AppointmentRequests == {Get} \cup AppointmentForms

AppointmentRow(id, req) ==
    [id |-> id, patient_name |-> req.patient_name, doctor_name |-> req.doctor_name,
     date |-> req.date, time |-> req.time]

book_appointment(req) ==
    login_required("book_appointment", NoId,
        /\ Room
        /\ appointments' = appointments \cup {AppointmentRow(NextId("appointments"), req)}
        /\ seq' = Bump("appointments")
        /\ resp' = Redirect("book_appointment", NoId, "view_appointments",
                            "Appointment booked successfully!")
        /\ UNCHANGED <<users, patients, medical_records, session>>)

view_appointments(search) ==
    login_required("view_appointments", NoId,
        /\ LET found == IF search # ""
                        THEN {a \in appointments :
                                Like(a.patient_name, search) \/ Like(a.doctor_name, search)}
                        ELSE appointments
           IN \E rows \in Ordered(found, ByDateTimeDesc(found)) :
                 resp' = Render("view_appointments", NoId, "view_appointments.html", "",
                                [appointments |-> rows, search |-> search])
        /\ UNCHANGED <<stores, session>>)

update_appointment(id, req) ==
    login_required("update_appointment", id,
        IF req.method = "POST"
        THEN /\ appointments' =
                    {IF a.id = id THEN AppointmentRow(id, req) ELSE a : a \in appointments}
             /\ resp' = Redirect("update_appointment", id, "view_appointments",
                                 "Appointment updated successfully!")
             /\ UNCHANGED <<users, patients, medical_records, seq, session>>
        ELSE /\ resp' = Render("update_appointment", id, "update_appointment.html", "",
                               [appointment |-> {a \in appointments : a.id = id}])
             /\ UNCHANGED <<stores, session>>)

delete_appointment(id) ==
    login_required("delete_appointment", id,
        /\ appointments' = {a \in appointments : a.id # id}
        /\ resp' = Redirect("delete_appointment", id, "view_appointments",
                            "Appointment deleted successfully!")
        /\ UNCHANGED <<users, patients, medical_records, seq, session>>)

\* the browser receives the response
deliver ==
    /\ resp # Idle
    /\ resp' = Idle
    /\ UNCHANGED <<stores, session>>

Next ==
    \/ init_db
    \/ \E m \in Methods, u \in Usernames, p \in Passwords : login(m, u, p)
    \/ logout
    \/ index
    \/ dashboard
    \/ view_users
    \/ \E req \in AddUserRequests : add_user(req)
    \/ \E id \in Ids("users"), req \in EditUserRequests : edit_user(id, req)
    \/ \E id \in Ids("users") : delete_user(id)
    \/ \E search \in Searches : view_medical_records(search)
    \/ \E req \in RecordRequests : add_medical_record(req)
    \/ \E id \in Ids("medical_records") : view_medical_record(id)
    \/ \E id \in Ids("medical_records"), req \in RecordRequests : edit_medical_record(id, req)
    \/ \E id \in Ids("medical_records") : delete_medical_record(id)
    \/ \E id \in Ids("patients") : patient_history(id)
    \/ \E req \in PatientForms : register_patient(req)
    \/ \E req \in AppointmentForms : book_appointment(req)
    \/ \E search \in Searches : view_patients(search)
    \/ \E id \in Ids("patients"), req \in PatientRequests : update_patient(id, req)
    \/ \E id \in Ids("patients") : delete_patient(id)
    \/ \E search \in Searches : view_appointments(search)
    \/ \E id \in Ids("appointments"), req \in AppointmentRequests : update_appointment(id, req)
    \/ \E id \in Ids("appointments") : delete_appointment(id)
    \/ deliver

Spec == Init /\ [][Next]_vars


(***************************************************************************)
(* Properties.                                                              *)
(***************************************************************************)
UserOps == {"view_users", "add_user", "edit_user", "delete_user"}
PatientOps == {"register_patient", "view_patients", "update_patient", "delete_patient"}
AppointmentOps == {"book_appointment", "view_appointments", "update_appointment",
                   "delete_appointment"}
RecordOps == {"view_medical_records", "add_medical_record", "view_medical_record",
              "edit_medical_record", "delete_medical_record", "patient_history"}
ProtectedOps == {"dashboard"} \cup UserOps \cup PatientOps \cup AppointmentOps \cup RecordOps

ToLogin == resp'.kind = "redirect" /\ resp'.target = "login"
ToDashboard == resp'.kind = "redirect" /\ resp'.target = "dashboard"

\* C1: a request for a protected route that arrives without a session is
\* answered with a redirect to login, and no table (nor the session) changes.
AnonymousRejected ==
    [][(~LoggedIn /\ resp'.op \in ProtectedOps)
          => /\ ToLogin
             /\ resp'.flash = "Please log in to access this page."
             /\ UNCHANGED <<users, patients, appointments, medical_records, seq, session>>]_vars

\* a delete of an existing patient was asked for without a session and refused
AnonymousRejectedWitness ==
    /\ ~LoggedIn
    /\ resp.op = "delete_patient" /\ resp.kind = "redirect" /\ resp.target = "login"
    /\ PatientById(resp.id) # {}

\* C2: a request for a user-service route from a session whose role is not
\* admin is answered with a redirect to the dashboard (not to login) and
\* leaves the users table unchanged; only an admin session gets past the gate.
NonAdminRejected ==
    [][(resp'.op \in UserOps /\ SessionRole # "admin")
          => /\ users' = users
             /\ IF LoggedIn
                THEN ToDashboard /\ resp'.flash = "Admin access required."
                ELSE ToLogin]_vars

\* a doctor or receptionist asked to delete an existing user and was refused
NonAdminRejectedWitness ==
    /\ LoggedIn /\ SessionRole \in {"doctor", "receptionist"}
    /\ resp.op = "delete_user" /\ resp.kind = "redirect" /\ resp.target = "dashboard"
    /\ UserById(resp.id) # {}

\* C6: the session changes only in a login step or a logout step.
SessionFrame == [][session' # session => resp'.op \in {"login", "logout"}]_vars

\* an administrator deleted the account the session was opened with
SessionFrameWitness ==
    /\ LoggedIn /\ resp.op = "delete_user" /\ resp.target = "view_users"
    /\ resp.id = session["user_id"] /\ UserById(resp.id) = {}

\* C7: logout always answers with the redirect to login and leaves no
\* session; from then on protected routes redirect to login, and a session
\* appears again only through a successful login.
LogoutEndsSession ==
    [][/\ resp'.op = "logout" =>
            /\ ~LoggedIn' /\ session' = NoSession
            /\ ToLogin /\ resp'.flash = "You have been logged out."
       /\ (~LoggedIn /\ resp'.op \in ProtectedOps) => (ToLogin /\ ~LoggedIn')
       /\ (~LoggedIn /\ LoggedIn') =>
            (resp'.op = "login" /\ resp'.flash = "Login successful!")]_vars

\* after a logout (a patient was registered before it) a protected route
\* was asked for and refused
LogoutEndsSessionWitness ==
    /\ ~LoggedIn /\ patients # {}
    /\ resp.op = "view_patients" /\ resp.kind = "redirect" /\ resp.target = "login"

AdminSession == LoggedIn /\ SessionRole = "admin"

\* the passwords a stored hash accepts
Accepted(pwhash) == {p \in Passwords \cup {""} : check_password_hash(pwhash, p)}

\* C3: once add_user has inserted (username, password), a login with that
\* pair is accepted for the new row and gives the session its id, username,
\* role and full name; a login with any other password for that username,
\* or with a username that is not in the table, is refused and leaves the
\* session as it was.
CreatedUserAuthenticates ==
    [][/\ (resp'.op = "add_user" /\ resp'.flash = "User created successfully!") =>
            \A req \in AddUserRequests :
                (req.method = "POST" /\ add_user(req))
                => /\ \E u \in users' :
                        /\ u.id = NextId("users")
                        /\ Authenticated(users', req.username, req.password) = {u}
                        /\ SessionOf(u) = [user_id |-> u.id, username |-> req.username,
                                           user_role |-> req.role,
                                           full_name |-> req.full_name]
                   /\ \A wrong \in (Passwords \cup {""}) \ {req.password} :
                        Authenticated(users', req.username, wrong) = {}
                   /\ \A name \in Usernames, p \in Passwords :
                        (\A u \in users' : u.username # name)
                            => Authenticated(users', name, p) = {}
       /\ resp'.op = "login" =>
            \A m \in Methods, name \in Usernames, p \in Passwords :
                login(m, name, p)
                => IF m = "POST" /\ Authenticated(users, name, p) # {}
                   THEN /\ session' \in {SessionOf(u) : u \in Authenticated(users, name, p)}
                        /\ ToDashboard
                   ELSE session' = session /\ resp'.kind = "render"]_vars

\* the account with id 2, created by add_user, has logged in
CreatedUserAuthenticatesWitness ==
    /\ resp.op = "login" /\ resp.flash = "Login successful!"
    /\ LoggedIn /\ session["user_id"] = 2
    /\ \E u \in users : u.id = 2 /\ SessionOf(u) = session

\* C4: add_user with a username that is already in the users table is
\* answered with the conflict notice and changes nothing in the table.
DuplicateUsernameRejected ==
    [][(resp'.op = "add_user" /\ AdminSession) =>
          \A req \in AddUserRequests :
              (/\ req.method = "POST"
               /\ \E u \in users : u.username = req.username
               /\ add_user(req))
              => /\ users' = users /\ seq' = seq
                 /\ resp'.kind = "render" /\ resp'.flash = "Username already exists!"]_vars

\* a second account named like an existing one was refused
DuplicateUsernameRejectedWitness ==
    /\ resp.op = "add_user" /\ resp.flash = "Username already exists!"
    /\ users # {}

\* what edit_user(id, req) does to the credential of an existing row `old`:
\* without a new password the hash is kept and the passwords it accepted
\* still log in under the row's username; with a new password that one logs
\* in and the ones accepted before (when different) no longer do.
CredentialRule(id, req, old) ==
    \E new \in users' :
        /\ new.id = id
        /\ IF Truthy(req.password)
           THEN /\ new \in Authenticated(users', new.username, req.password[1])
                /\ \A p \in Accepted(old.password_hash) \ {req.password[1]} :
                      new \notin Authenticated(users', new.username, p)
           ELSE /\ new.password_hash = old.password_hash
                /\ \A p \in Accepted(old.password_hash) :
                      new \in Authenticated(users', new.username, p)

\* the step answers the form `req` submitted to edit_user
EditUserSubmitted(req) == req.method = "POST" /\ edit_user(resp'.id, req)

\* the step answers an edit_user request of an administrator for a user
\* that exists
EditsExistingUser == resp'.op = "edit_user" /\ AdminSession /\ UserById(resp'.id) # {}

\* C5 as stated: every edit_user submitted for an existing user follows the
\* credential rule.
EveryUpdateSetsCredential ==
    [][EditsExistingUser =>
          \A req \in EditUserRequests :
              EditUserSubmitted(req)
              => \A old \in UserById(resp'.id) : CredentialRule(resp'.id, req, old)]_vars

\* C5, amended: every edit_user submitted for an existing user without a new
\* password keeps the credential, and every one with a new password that is
\* accepted (not refused for a username held by another user) replaces it.
AcceptedUpdateSetsCredential ==
    [][EditsExistingUser =>
          \A req \in EditUserRequests :
              (/\ req.method = "POST"
               /\ Truthy(req.password) => resp'.flash = "User updated successfully!"
               /\ EditUserSubmitted(req))
              => \A old \in UserById(resp'.id) : CredentialRule(resp'.id, req, old)]_vars

\* the seeded admin was renamed and given the password "pw" in place of
\* "admin123"
AcceptedUpdateSetsCredentialWitness ==
    /\ resp.op = "edit_user" /\ resp.flash = "User updated successfully!"
    /\ \E u \in UserById(resp.id) :
          /\ u.id = 1 /\ u.username = "bob"
          /\ Accepted(u.password_hash) = {"pw"}

\* C8: patient_history answers "not found" whenever no patient has the id,
\* whatever medical records name it; otherwise it shows that patient with
\* exactly the records whose patient_id is the id, latest visit first.
PatientHistoryContract ==
    [][(LoggedIn /\ resp'.op = "patient_history")
          => IF PatientById(resp'.id) = {}
             THEN /\ resp'.kind = "redirect" /\ resp'.target = "view_patients"
                  /\ resp'.flash = "Patient not found!"
             ELSE LET shown == resp'.data.records
                  IN /\ resp'.kind = "render"
                     /\ resp'.data.patient \in PatientById(resp'.id)
                     /\ {shown[n] : n \in 1..Len(shown)}
                            = {r \in medical_records : r.patient_id = resp'.id}
                     /\ Len(shown) = Cardinality({r \in medical_records :
                                                    r.patient_id = resp'.id})
                     /\ \A a, b \in 1..Len(shown) :
                            a < b => Rank(shown[a].visit_date) >= Rank(shown[b].visit_date)]_vars

\* the history of a deleted patient that still has a record was asked for
PatientHistoryContractWitness ==
    /\ LoggedIn /\ resp.op = "patient_history" /\ resp.flash = "Patient not found!"
    /\ resp.id <= seq["patients"] /\ PatientById(resp.id) = {}
    /\ \E r \in medical_records : r.patient_id = resp.id

UpdateMissingUserNotFound ==
    [][(resp'.op = "edit_user" /\ AdminSession /\ UserById(resp'.id) = {}) =>
          \A req \in EditUserRequests :
              EditUserSubmitted(req)
              => /\ users' = users
                 /\ resp'.flash = "User not found!"]_vars

\* C11: view_medical_record shows the stored record with the id whenever
\* there is one, its patient deleted or not, and answers "not found" only
\* when no medical record has the id.
StoredRecordReturned ==
    [][(LoggedIn /\ resp'.op = "view_medical_record")
          => IF RecordById(resp'.id) = {}
             THEN /\ resp'.kind = "redirect"
                  /\ resp'.flash = "Medical record not found!"
             ELSE /\ resp'.kind = "render"
                  /\ \E r \in RecordById(resp'.id) :
                        /\ resp'.data.record.id = r.id
                        /\ resp'.data.record.patient_id = r.patient_id
                        /\ resp'.data.record.diagnosis = r.diagnosis
                        /\ resp'.data.record.visit_date = r.visit_date]_vars

\* C12: init_db on an empty users table leaves exactly one user in it, named
\* admin, with role admin and a credential that accepts admin123 and logs in
\* to a session with role admin; on a table that holds a user it changes
\* nothing; the other tables are never touched.  A session with role admin
\* gets past admin_required on every user-service route.
BootstrapSeedsAdmin ==
    [][/\ init_db =>
            /\ IF users = {}
               THEN \E u \in users' :
                       /\ users' = {u}
                       /\ u.username = "admin" /\ u.role = "admin"
                       /\ Authenticated(users', "admin", "admin123") = {u}
                       /\ SessionOf(u)["user_role"] = "admin"
                       /\ SessionOf(u)["user_id"] = u.id
               ELSE users' = users /\ seq' = seq
            /\ UNCHANGED <<patients, appointments, medical_records, session>>
       /\ (AdminSession /\ resp'.op \in UserOps) =>
            /\ ~ToLogin
            /\ resp'.flash # "Admin access required."]_vars

\* the users table was emptied, init_db seeded the admin account again (it
\* got id 2), and a login with admin/admin123 was let in to the users list
BootstrapSeedsAdminWitness ==
    /\ \E salt \in Salts : users = {AdminRow(2, salt)}
    /\ LoggedIn /\ session["user_id"] = 2 /\ session["user_role"] = "admin"
    /\ resp.op = "view_users" /\ resp.kind = "render"

\* no two rows of the users table have the same username (nor the same id)
UniqueUsernames ==
    \A u, v \in users : (u.username = v.username \/ u.id = v.id) => u = v

\* the step answers an edit_user form that renames user `id` to a username
\* another user holds
RenamesToHeldUsername(id, req) ==
    /\ req.method = "POST"
    /\ \E u \in users : u.username = req.username /\ u.id # id
    /\ edit_user(id, req)

StaleSession ==
    /\ LoggedIn
    /\ \A u \in UserById(session["user_id"]) : u.role # session["user_role"]

\* C14: the session is what login stored and is not compared with the users
\* table again.  delete_user and edit_user leave the session as it is, also
\* when they delete or change its own user; a session whose user was deleted
\* or given another role is still let through login_required, and through
\* admin_required when the role it carries is admin; it ends only by logout
\* (or is replaced by a new login).
StaleSessionKeepsAccess ==
    [][/\ (LoggedIn /\ resp'.op \in {"delete_user", "edit_user"}) => session' = session
       /\ (StaleSession /\ resp'.op \in ProtectedOps) =>
            /\ ~ToLogin
            /\ SessionRole = "admin" => resp'.flash # "Admin access required."
            /\ (SessionRole # "admin" /\ resp'.op \notin UserOps) => ~ToDashboard
            /\ session' = session
       /\ (StaleSession /\ session' # session) => resp'.op \in {"login", "logout"}
       /\ (StaleSession /\ ~LoggedIn') => resp'.op = "logout"]_vars

\* the administrator changed the role of the own account to doctor and was
\* still shown the users list
StaleSessionKeepsAccessWitness ==
    /\ LoggedIn /\ session["user_role"] = "admin"
    /\ \E u \in UserById(session["user_id"]) : u.role = "doctor"
    /\ resp.op = "view_users" /\ resp.kind = "render"

\* the patient ids given out so far
PatientIdsGiven == 1..seq["patients"]

\* the id was given to a patient that has been deleted since
DeletedPatient(id) == id \in PatientIdsGiven /\ PatientById(id) = {}

\* the records a response shows
ShownRecords ==
    IF resp'.kind # "render" THEN {}
    ELSE IF resp'.op \in {"view_medical_records", "patient_history"}
    THEN {resp'.data.records[n] : n \in 1..Len(resp'.data.records)}
    ELSE IF resp'.op = "view_medical_record" THEN {resp'.data.record}
    ELSE {}

====
